---------------------------- MODULE Spec2Model ----------------------------
(***************************************************************************)
(* A model of the flanger kernel of Packages/Sources/Kernel/C++/Kernel.hpp *)
(* (class Kernel): initialize, calcCenterVariance, calcSingleTap,          *)
(* calcDoubleTap, writeSample and doRendering.                             *)
(*                                                                         *)
(* Numbers.  The kernel computes in AUValue (float) and double.  The model *)
(* computes with exact rationals <<n, d>> (d > 0, lowest terms), so every  *)
(* statement below is about the arithmetic the code writes down, without   *)
(* floating-point rounding.                                                *)
(*                                                                         *)
(* Collaborators.  DSPHeaders::DelayBuffer, DSPHeaders::LFO, the smoothed  *)
(* parameters and BusBuffers are not part of Kernel.hpp.  They are         *)
(* modelled from the design document: sections 3, 4.1, 4.2 and 4.5.        *)
(***************************************************************************)
EXTENDS Integers, Sequences, FiniteSets

VARIABLES
  kernel,     \* the Kernel object
  shadow,     \* a second Kernel object, used by the comparison specifications
  op,         \* the last operation: [name, frameCount]
  ins,        \* input bus of the last render call: ins[channel][frame]
  outs,       \* output bus written by the last render call on kernel
  shadowOuts, \* output bus written by the last render call(s) on shadow
  trace,      \* per frame of the last render call on kernel: taps and samples
  hist        \* bookkeeping since construction / configuration

vars == <<kernel, shadow, op, ins, outs, shadowOuts, trace, hist>>

-----------------------------------------------------------------------------
(* Bounds of the model *)

\* total number of frames rendered in one behaviour
MaxFrames == 2
\* number of parameter changes in one behaviour
MaxSets == 1
\* number of frames of a scenario (impulse, step, partitioned rendering)
MaxRunFrames == 4

-----------------------------------------------------------------------------
(* Exact rational arithmetic standing for AUValue / double arithmetic *)

Abs(n) == IF n < 0 THEN -n ELSE n

RECURSIVE GCD(_, _)
GCD(a, b) == IF b = 0 THEN a ELSE GCD(b, a % b)

Norm(n, d) ==
  LET g == GCD(Abs(n), d) IN <<n \div g, d \div g>>

R(n) == <<n, 1>>

Zero == <<0, 1>>
One == <<1, 1>>

RAdd(a, b) ==
  LET g == GCD(a[2], b[2])
  IN Norm(a[1] * (b[2] \div g) + b[1] * (a[2] \div g), (a[2] \div g) * b[2])

RNeg(a) == <<-a[1], a[2]>>

RSub(a, b) == RAdd(a, RNeg(b))

RMul(a, b) ==
  LET g1 == GCD(Abs(a[1]), b[2])
      g2 == GCD(Abs(b[1]), a[2])
  IN Norm((a[1] \div g1) * (b[1] \div g2), (a[2] \div g2) * (b[2] \div g1))

\* a / n for a whole number n > 0
RDivInt(a, n) == RMul(a, <<1, n>>)

RLe(a, b) == a[1] * b[2] <= b[1] * a[2]

RLt(a, b) == a[1] * b[2] < b[1] * a[2]

RAbs(a) == <<Abs(a[1]), a[2]>>

\* largest whole number <= a
RFloor(a) == a[1] \div a[2]

\* smallest whole number >= a
RCeil(a) == -((-a[1]) \div a[2])

IsWhole(a) == a[2] = 1

-----------------------------------------------------------------------------
(* DSPHeaders::DelayBuffer, from the design document (sections 3 and 4.1)  *)

\* configure(capacitySamples): storage able to hold at least the requested
\* number of samples, zeroed, write cursor reset.
DelayLine(size) ==
  LET capacity == RCeil(size)
  IN [capacity |-> capacity, buf |-> [i \in 0 .. capacity - 1 |-> Zero],
      writePos |-> 0, writes |-> 0]

Capacity(line) == line.capacity

\* write(sample): store at the write cursor, advance the cursor (wrapping).
write(line, sample) ==
  [line EXCEPT !.buf[line.writePos] = sample,
               !.writePos = (line.writePos + 1) % Capacity(line),
               !.writes = @ + 1]

\* delaySamples clamped to [0, capacity - 1]
clampDelay(line, delaySamples) ==
  IF RLt(delaySamples, Zero) THEN Zero
  ELSE IF RLt(R(Capacity(line) - 1), delaySamples) THEN R(Capacity(line) - 1)
  ELSE delaySamples

\* read(delaySamples): the value delaySamples samples backward from the write
\* cursor, linearly interpolated between the two neighbouring whole taps.
read(line, delaySamples) ==
  LET d == clampDelay(line, delaySamples)
      whole == RFloor(d)
      partial == RSub(d, R(whole))
      y1 == line.buf[(line.writePos - whole) % Capacity(line)]
      y2 == line.buf[(line.writePos - whole - 1) % Capacity(line)]
  IN RAdd(RMul(y2, partial), RMul(RSub(One, partial), y1))

-----------------------------------------------------------------------------
(* DSPHeaders::LFO, from the design document (sections 3 and 4.2)          *)

\* value = 1 - 4 * |phase - 0.5|, in [-1, +1]
triangle(phase) == RSub(One, RMul(R(4), RAbs(RSub(phase, <<1, 2>>))))

\* phase wrapped into [0, 1)
wrapPhase(phase) == IF RLe(One, phase) THEN RSub(phase, One) ELSE phase

value(lfo) == triangle(lfo.phase)

quadPhaseValue(lfo) == triangle(wrapPhase(RAdd(lfo.phase, <<1, 4>>)))

setSampleRate(lfo, sampleRate) == [lfo EXCEPT !.sampleRate = sampleRate]

setWaveform(lfo, waveform) == [lfo EXCEPT !.waveform = waveform]

\* increment(): phase advances by frequency / sampleRate; the frequency is the
\* rate parameter the LFO was constructed with (lfo_{rate_}).
increment(lfo, rate) ==
  [lfo EXCEPT !.phase = wrapPhase(RAdd(@, Norm(rate, lfo.sampleRate))),
              !.increments = @ + 1]

-----------------------------------------------------------------------------
(* Smoothed parameters, from the design document (sections 3 and 4.5)      *)

\* number of frameValue() steps a changed parameter takes to reach its target
RampSteps == 2

\* a parameter at rest at value v
Settled(v) == [cur |-> v, target |-> v, left |-> 0, fv |-> 0, fin |-> 0]

\* frameValue(): the next per-sample ramp step.  The result holds the
\* parameter after the call and the value returned; fv counts the calls made
\* during a render call.
frameValue(p) ==
  LET q == IF p.left = 0
           THEN [p EXCEPT !.cur = p.target, !.fv = @ + 1]
           ELSE [p EXCEPT !.cur = RAdd(p.cur, RDivInt(RSub(p.target, p.cur), p.left)),
                          !.left = @ - 1,
                          !.fv = @ + 1]
  IN [param |-> q, value |-> q.cur]

\* finalValue(): the block-end target; the ramp is left where it is.  fin
\* counts the calls made during a render call.
finalValue(p) == [param |-> [p EXCEPT !.fin = @ + 1], value |-> p.target]

\* Bool::getImmediate(): the current value; reads counts the calls.
getImmediate(b) == [b EXCEPT !.reads = @ + 1]

\* a new target arrives from the host: the ramp starts from the current value
setTarget(p, v) ==
  [p EXCEPT !.target = v, !.left = IF v = p.cur THEN 0 ELSE RampSteps]

ScalarNames == {"delay", "depth", "feedback", "wetMix", "dryMix"}

\* the call counters are per render call
resetCounters(k) ==
  [k EXCEPT !.delay.fv = 0, !.delay.fin = 0,
            !.depth.fv = 0, !.depth.fin = 0,
            !.feedback.fv = 0, !.feedback.fin = 0,
            !.wetMix.fv = 0, !.wetMix.fin = 0,
            !.dryMix.fv = 0, !.dryMix.fin = 0,
            !.odd90.reads = 0]

-----------------------------------------------------------------------------
(* class Kernel *)

\* The object after Kernel(name).  samplesPerMillisecond_ and
\* maxDelayMilliseconds_ hold no value before initialize; render is only
\* called on a configured kernel, so the placeholders are never read.
Constructed ==
  [configured |-> FALSE,
   maxDelayMilliseconds |-> 0,
   samplesPerMillisecond |-> Zero,
   size |-> Zero,
   delayLines |-> <<>>,
   lfo |-> [phase |-> Zero, sampleRate |-> 0, waveform |-> "default", increments |-> 0],
   rate |-> 0,
   delay |-> Settled(Zero),
   depth |-> Settled(Zero),
   feedback |-> Settled(Zero),
   dryMix |-> Settled(Zero),
   wetMix |-> Settled(Zero),
   negativeFeedback |-> FALSE,
   odd90 |-> [value |-> FALSE, reads |-> 0]]

\* auto size = maxDelayMilliseconds * samplesPerMillisecond_ + 1
delaySize_noHeadroom(maxDelayMilliseconds, samplesPerMillisecond) ==
  RMul(R(maxDelayMilliseconds), samplesPerMillisecond)

delaySize(maxDelayMilliseconds, samplesPerMillisecond) ==
  RAdd(RMul(R(maxDelayMilliseconds), samplesPerMillisecond), One)

\* delayLines_.clear()
clear(lines) == <<>>

\* for (index < channelCount) delayLines_.emplace_back(size)
emplaceLines(lines, channelCount, size) ==
  lines \o [index \in 1 .. channelCount |-> DelayLine(size)]

initialize(k, channelCount, sampleRate, maxDelayMilliseconds) ==
  LET spm == Norm(sampleRate, 1000)
      size == delaySize(maxDelayMilliseconds, spm)
  IN [k EXCEPT !.configured = TRUE,
               !.maxDelayMilliseconds = maxDelayMilliseconds,
               !.samplesPerMillisecond = spm,
               !.lfo = setWaveform(setSampleRate(@, sampleRate), "triangle"),
               !.size = size,
               !.delayLines = emplaceLines(clear(@), channelCount, size)]

\* (negativeFeedback_ ? -1.0 : 1.0)
feedbackSign_ignored(negativeFeedback) == One

feedbackSign(negativeFeedback) == IF negativeFeedback THEN R(-1) ELSE One

calcCenterVariance_fullDepth(k, delay, depth) ==
  LET variance == RMul(RSub(R(k.maxDelayMilliseconds), delay), depth)
      center == RAdd(delay, variance)
  IN <<center, variance>>

calcCenterVariance(k, delay, depth) ==
  LET variance == RDivInt(RMul(RSub(R(k.maxDelayMilliseconds), delay), depth), 2)
      center == RAdd(delay, variance)
  IN <<center, variance>>

\* (nominalMilliseconds + reading * displacementMilliseconds) * samplesPerMillisecond_
tapAt(k, reading, nominalMilliseconds, displacementMilliseconds) ==
  RMul(RAdd(nominalMilliseconds, RMul(reading, displacementMilliseconds)),
       k.samplesPerMillisecond)

calcSingleTap_noIncrement(k, nominalMilliseconds, displacementMilliseconds) ==
  LET tap == tapAt(k, value(k.lfo), nominalMilliseconds, displacementMilliseconds)
  IN [evenTap |-> tap, oddTap |-> tap, lfo |-> k.lfo]

calcSingleTap(k, nominalMilliseconds, displacementMilliseconds) ==
  LET tap == tapAt(k, value(k.lfo), nominalMilliseconds, displacementMilliseconds)
  IN [evenTap |-> tap, oddTap |-> tap, lfo |-> increment(k.lfo, k.rate)]

calcDoubleTap(k, nominalMilliseconds, displacementMilliseconds) ==
  LET evenTap == tapAt(k, value(k.lfo), nominalMilliseconds, displacementMilliseconds)
      oddTap == tapAt(k, quadPhaseValue(k.lfo), nominalMilliseconds,
                      displacementMilliseconds)
  IN [evenTap |-> evenTap, oddTap |-> oddTap, lfo |-> increment(k.lfo, k.rate)]

\* wetMix * delayedSample + dryMix * inputSample
mixOutput_dryConstant(wetMix, delayedSample, dryMix, inputSample) ==
  RAdd(RMul(wetMix, delayedSample), dryMix)

mixOutput_swapped(wetMix, delayedSample, dryMix, inputSample) ==
  RAdd(RMul(dryMix, delayedSample), RMul(wetMix, inputSample))

mixOutput(wetMix, delayedSample, dryMix, inputSample) ==
  RAdd(RMul(wetMix, delayedSample), RMul(dryMix, inputSample))

\* one iteration of the channel loop of writeSample; channel counts from 0
processChannel_writeFirst(line, channel, inputSample, evenTap, oddTap, feedback, wetMix, dryMix) ==
  LET written0 == write(line, inputSample)
      delayedSample == read(written0, IF channel % 2 = 1 THEN oddTap ELSE evenTap)
      written == RAdd(inputSample, RMul(feedback, delayedSample))
  IN [line |-> [written0 EXCEPT !.buf[line.writePos] = written],
      out |-> mixOutput(wetMix, delayedSample, dryMix, inputSample),
      delayed |-> delayedSample,
      written |-> written]

processChannel(line, channel, inputSample, evenTap, oddTap, feedback, wetMix, dryMix) ==
  LET delayedSample == read(line, IF channel % 2 = 1 THEN oddTap ELSE evenTap)
      written == RAdd(inputSample, RMul(feedback, delayedSample))
  IN [line |-> write(line, written),
      out |-> mixOutput(wetMix, delayedSample, dryMix, inputSample),
      delayed |-> delayedSample,
      written |-> written]

\* writeSample: inFrame[c] is the sample *ins[c - 1]++ of this frame.  The
\* result holds the delay lines, and per channel the sample stored in outs,
\* the delayed sample read and the sample written to the delay line.
writeSample(lines, inFrame, evenTap, oddTap, feedback, wetMix, dryMix) ==
  LET ch == [c \in 1 .. Len(inFrame) |->
               processChannel(lines[c], c - 1, inFrame[c], evenTap, oddTap,
                              feedback, wetMix, dryMix)]
  IN [lines |-> [c \in 1 .. Len(lines) |->
                   IF c <= Len(inFrame) THEN ch[c].line ELSE lines[c]],
      out |-> [c \in 1 .. Len(inFrame) |-> ch[c].out],
      delayed |-> [c \in 1 .. Len(inFrame) |-> ch[c].delayed],
      written |-> [c \in 1 .. Len(inFrame) |-> ch[c].written]]

\* the samples of frame i (from 1) of a bus: one per channel
frameOf(bus, i) == [c \in 1 .. Len(bus) |-> bus[c][i]]

\* if (frameCount == 1)
isRampRegime(frameCount) == frameCount = 1

\* X_.frameValue() in the frameCount == 1 branch
rampValue_final(p) == finalValue(p)

rampValue(p) == frameValue(p)

\* X_.finalValue() in the frameCount > 1 branch
blockValue_perFrame(p) == frameValue(p)

blockValue(p) == finalValue(p)

\* odd90 ? calcDoubleTap(center, variance) : calcSingleTap(center, variance)
selectTap_single(k, odd90, center, variance) ==
  calcSingleTap(k, center, variance)

selectTap(k, odd90, center, variance) ==
  IF odd90 THEN calcDoubleTap(k, center, variance)
  ELSE calcSingleTap(k, center, variance)

\* the record kept per rendered frame: what the frame was computed from
FrameRecord(t, c, ws) ==
  [evenTap |-> t.evenTap, oddTap |-> t.oddTap,
   delay |-> c.delay, depth |-> c.depth, feedback |-> c.feedback,
   wetMix |-> c.wetMix, dryMix |-> c.dryMix,
   delayed |-> ws.delayed, written |-> ws.written]

\* the frameCount == 1 branch of doRendering
renderRamp(k, bus, odd90) ==
  LET delay == rampValue(k.delay)
      depth == rampValue(k.depth)
      fb == rampValue(k.feedback)
      feedback == RMul(feedbackSign(k.negativeFeedback), fb.value)
      cv == calcCenterVariance(k, delay.value, depth.value)
      t == selectTap(k, odd90, cv[1], cv[2])
      wetMix == rampValue(k.wetMix)
      dryMix == rampValue(k.dryMix)
      ws == writeSample(k.delayLines, frameOf(bus, 1), t.evenTap, t.oddTap,
                        feedback, wetMix.value, dryMix.value)
      c == [delay |-> delay.value, depth |-> depth.value, feedback |-> feedback,
            wetMix |-> wetMix.value, dryMix |-> dryMix.value]
  IN [k |-> [k EXCEPT !.delay = delay.param, !.depth = depth.param,
                      !.feedback = fb.param, !.wetMix = wetMix.param,
                      !.dryMix = dryMix.param, !.lfo = t.lfo,
                      !.delayLines = ws.lines],
      outs |-> [ch \in 1 .. Len(bus) |-> <<ws.out[ch]>>],
      trace |-> <<FrameRecord(t, c, ws)>>]

\* while (frameCount-- > 0) { calc...Tap; writeSample }: frames i .. frameCount
RECURSIVE renderFrames(_, _, _, _, _)
renderFrames(st, bus, i, frameCount, c) ==
  IF i > frameCount THEN st
  ELSE LET t == IF c.odd90 THEN calcDoubleTap(st.k, c.center, c.variance)
                ELSE calcSingleTap(st.k, c.center, c.variance)
           ws == writeSample(st.k.delayLines, frameOf(bus, i), t.evenTap, t.oddTap,
                             c.feedback, c.wetMix, c.dryMix)
       IN renderFrames(
            [k |-> [st.k EXCEPT !.lfo = t.lfo, !.delayLines = ws.lines],
             outs |-> [ch \in 1 .. Len(bus) |-> Append(st.outs[ch], ws.out[ch])],
             trace |-> Append(st.trace, FrameRecord(t, c, ws))],
            bus, i + 1, frameCount, c)

\* the else branch of doRendering
renderBlock(k, bus, frameCount, odd90) ==
  LET delay == blockValue(k.delay)
      depth == blockValue(k.depth)
      fb == blockValue(k.feedback)
      feedback == RMul(feedbackSign(k.negativeFeedback), fb.value)
      wetMix == blockValue(k.wetMix)
      dryMix == blockValue(k.dryMix)
      cv == calcCenterVariance(k, delay.value, depth.value)
      c == [odd90 |-> odd90, center |-> cv[1], variance |-> cv[2],
            delay |-> delay.value, depth |-> depth.value, feedback |-> feedback,
            wetMix |-> wetMix.value, dryMix |-> dryMix.value]
      k1 == [k EXCEPT !.delay = delay.param, !.depth = depth.param,
                      !.feedback = fb.param, !.wetMix = wetMix.param,
                      !.dryMix = dryMix.param]
  IN renderFrames([k |-> k1, outs |-> [ch \in 1 .. Len(bus) |-> <<>>], trace |-> <<>>],
                  bus, 1, frameCount, c)

\* doRendering(outputBusNumber, ins, outs, frameCount): the kernel afterwards,
\* the samples stored in outs and the per-frame records
doRendering(k, bus, frameCount) ==
  LET odd90 == getImmediate(k.odd90)
      k0 == [k EXCEPT !.odd90 = odd90]
  IN IF isRampRegime(frameCount)
     THEN renderRamp(k0, bus, odd90.value)
     ELSE renderBlock(k0, bus, frameCount, odd90.value)

-----------------------------------------------------------------------------
(* Values the host supplies *)

ChannelCounts == {0, 1, 2}
SampleRates == {1000, 1500}
MaxDelays == {1}
Rates == {0, 250}
Fractions == {Zero, One}
Samples == {Zero, One}
FrameCounts == {0, 1, 2}

\* delay is clamped to [0, maxDelayMilliseconds] by the parameter subsystem
DelayValues(k) == {R(d) : d \in 0 .. k.maxDelayMilliseconds}

Buses(channelCount, frameCount) ==
  [1 .. channelCount -> [1 .. frameCount -> Samples]]

\* the bus whose every sample is v
ConstantBus(channelCount, frameCount, v) ==
  [c \in 1 .. channelCount |-> [i \in 1 .. frameCount |-> v]]

IsSilent(bus) == \A c \in 1 .. Len(bus) : \A i \in 1 .. Len(bus[c]) : bus[c][i] = Zero

-----------------------------------------------------------------------------
(* The kernel driven by its host: configure, parameter changes, render *)

\* frames: frames rendered since construction; sinceConfigure: since the last
\* configure; sets: parameter changes; silent: every input sample since the
\* last configure was 0; heard / fed: in the scenarios, the output frames and
\* the (delayed, written) samples of every frame so far.
NoHistory ==
  [frames |-> 0, sinceConfigure |-> 0, sets |-> 0, silent |-> TRUE,
   config |-> [channelCount |-> 0, sampleRate |-> 0, maxDelayMilliseconds |-> 0],
   heard |-> <<>>, shadowHeard |-> <<>>, fed |-> <<>>, shadowFed |-> <<>>]

\* The parameters' values at construction come from the host's parameter
\* tree, which Kernel.hpp does not set: any of these settings.
InitialSettings ==
  { [rate |-> 0, delay |-> Zero, depth |-> Zero, feedback |-> Zero,
     dryMix |-> Zero, wetMix |-> Zero, negativeFeedback |-> FALSE, odd90 |-> FALSE],
    [rate |-> 250, delay |-> Zero, depth |-> One, feedback |-> <<1, 2>>,
     dryMix |-> <<1, 2>>, wetMix |-> <<1, 2>>, negativeFeedback |-> TRUE, odd90 |-> TRUE],
    [rate |-> 250, delay |-> One, depth |-> <<1, 2>>, feedback |-> Zero,
     dryMix |-> One, wetMix |-> Zero, negativeFeedback |-> FALSE, odd90 |-> FALSE] }

withSettings(k, s) ==
  [k EXCEPT !.rate = s.rate,
            !.delay = Settled(s.delay),
            !.depth = Settled(s.depth),
            !.feedback = Settled(s.feedback),
            !.dryMix = Settled(s.dryMix),
            !.wetMix = Settled(s.wetMix),
            !.negativeFeedback = s.negativeFeedback,
            !.odd90.value = s.odd90]

Init ==
  /\ kernel \in {withSettings(Constructed, s) : s \in InitialSettings}
  /\ shadow = Constructed
  /\ op = [name |-> "construct", frameCount |-> 0]
  /\ ins = <<>>
  /\ outs = <<>>
  /\ shadowOuts = <<>>
  /\ trace = <<>>
  /\ hist = NoHistory

\* setRenderingFormat(busCount, format, maxFramesToRender, maxDelayMilliseconds)
Configure(channelCount, sampleRate, maxDelayMilliseconds) ==
  /\ kernel' = initialize(kernel, channelCount, sampleRate, maxDelayMilliseconds)
  /\ op' = [name |-> "configure", frameCount |-> 0]
  /\ ins' = <<>>
  /\ outs' = <<>>
  /\ trace' = <<>>
  /\ hist' = [hist EXCEPT !.sinceConfigure = 0, !.silent = TRUE,
                          !.config = [channelCount |-> channelCount,
                                      sampleRate |-> sampleRate,
                                      maxDelayMilliseconds |-> maxDelayMilliseconds]]
  /\ UNCHANGED <<shadow, shadowOuts>>

\* the host moves one of the ramped parameters to a new target
SetParameter(name, v) ==
  /\ hist.sets < MaxSets
  /\ v # kernel[name].target
  /\ kernel' = [kernel EXCEPT ![name] = setTarget(@, v)]
  /\ op' = [name |-> "set", frameCount |-> 0]
  /\ ins' = <<>>
  /\ outs' = <<>>
  /\ trace' = <<>>
  /\ hist' = [hist EXCEPT !.sets = @ + 1]
  /\ UNCHANGED <<shadow, shadowOuts>>

\* the host changes rate, negativeFeedback or odd90
SetSwitch(name, v) ==
  /\ hist.sets < MaxSets
  /\ kernel' = CASE name = "rate" -> [kernel EXCEPT !.rate = v]
                 [] name = "negativeFeedback" -> [kernel EXCEPT !.negativeFeedback = v]
                 [] name = "odd90" -> [kernel EXCEPT !.odd90.value = v]
  /\ kernel' # kernel
  /\ op' = [name |-> "set", frameCount |-> 0]
  /\ ins' = <<>>
  /\ outs' = <<>>
  /\ trace' = <<>>
  /\ hist' = [hist EXCEPT !.sets = @ + 1]
  /\ UNCHANGED <<shadow, shadowOuts>>

\* render: doRendering on frameCount frames of input
Render(frameCount, bus) ==
  /\ kernel.configured
  /\ hist.frames + frameCount <= MaxFrames
  /\ \E r \in {doRendering(resetCounters(kernel), bus, frameCount)} :
        /\ kernel' = r.k
        /\ outs' = r.outs
        /\ trace' = r.trace
  /\ ins' = bus
  /\ op' = [name |-> "render", frameCount |-> frameCount]
  /\ hist' = [hist EXCEPT !.frames = @ + frameCount,
                          !.sinceConfigure = @ + frameCount,
                          !.silent = @ /\ IsSilent(bus)]
  /\ UNCHANGED <<shadow, shadowOuts>>

Next ==
  \/ \E channelCount \in ChannelCounts, sampleRate \in SampleRates,
        maxDelayMilliseconds \in MaxDelays :
       Configure(channelCount, sampleRate, maxDelayMilliseconds)
  \/ \E v \in DelayValues(kernel) : SetParameter("delay", v)
  \/ \E name \in ScalarNames \ {"delay"}, v \in Fractions : SetParameter(name, v)
  \/ \E v \in Rates : SetSwitch("rate", v)
  \/ \E name \in {"negativeFeedback", "odd90"}, v \in BOOLEAN : SetSwitch(name, v)
  \/ \E frameCount \in FrameCounts :
       \E bus \in Buses(Len(kernel.delayLines), frameCount) : Render(frameCount, bus)

Spec == Init /\ [][Next]_vars

-----------------------------------------------------------------------------
(* Properties of the host-driven kernel (specification Spec) *)

Rendered == op.name = "render"

FramesOf(t) == 1 .. Len(t)
Channels == 1 .. Len(outs)

AllCellsZero(k) ==
  \A c \in 1 .. Len(k.delayLines) :
    \A i \in 0 .. k.delayLines[c].capacity - 1 : k.delayLines[c].buf[i] = Zero

\* C2 -- Silence in, silence out: as long as every input sample rendered since
\* the kernel was configured is 0, every output sample written is 0 and every
\* delay-line cell is 0, whatever the parameters are.
SilenceInSilenceOut ==
  hist.silent =>
    /\ \A c \in Channels : \A i \in 1 .. Len(outs[c]) : outs[c][i] = Zero
    /\ AllCellsZero(kernel)

\* a silent render of two frames with non-zero feedback, dry and wet mix
SilenceWitness ==
  /\ hist.silent
  /\ Rendered
  /\ Len(outs) = 2
  /\ Len(trace) = 2
  /\ trace[2].feedback # Zero
  /\ trace[2].dryMix # Zero
  /\ trace[2].wetMix # Zero

\* C6 -- Dry passthrough: in every frame rendered with wetMix = 0, dryMix = 1
\* and feedback = 0 the output sample of each channel equals its input sample,
\* whatever rate, delay, depth, odd90 and the delay lines are.
DryPassthrough ==
  Rendered =>
    \A i \in FramesOf(trace) :
      (trace[i].wetMix = Zero /\ trace[i].dryMix = One /\ trace[i].feedback = Zero)
        => \A c \in Channels : outs[c][i] = ins[c][i]

\* a passthrough frame whose delay line returned a non-zero sample while the
\* input was 0
DryPassthroughWitness ==
  /\ Rendered
  /\ \E i \in FramesOf(trace) : \E c \in Channels :
       /\ trace[i].wetMix = Zero
       /\ trace[i].dryMix = One
       /\ trace[i].feedback = Zero
       /\ trace[i].delayed[c] # Zero
       /\ ins[c][i] = Zero
       /\ outs[c][i] = Zero

\* C7 -- A render call with frameCount == 0 is a no-op: no output sample is
\* written, the delay lines and the LFO are unchanged and no parameter ramp is
\* advanced (frameValue is not called).
EmptyRenderIsNoOp ==
  [][(op'.name = "render" /\ op'.frameCount = 0) =>
       /\ \A c \in 1 .. Len(outs') : outs'[c] = <<>>
       /\ trace' = <<>>
       /\ kernel'.delayLines = kernel.delayLines
       /\ kernel'.lfo = kernel.lfo
       /\ \A name \in ScalarNames :
            /\ kernel'[name].fv = 0
            /\ kernel'[name].cur = kernel[name].cur
            /\ kernel'[name].left = kernel[name].left
            /\ kernel'[name].target = kernel[name].target]_vars

\* an empty render on two channels with a ramp pending and the LFO advanced
EmptyRenderWitness ==
  /\ Rendered
  /\ op.frameCount = 0
  /\ Len(outs) = 2
  /\ kernel.lfo.increments > 0
  /\ \E name \in ScalarNames : kernel[name].left > 0

\* C8 -- The LFO is advanced exactly once per rendered frame, whatever the
\* channel count, odd90 and frameCount are, and each delay line has been
\* written once per frame rendered since it was created.
LfoOncePerFrame ==
  /\ kernel.lfo.increments = hist.frames
  /\ \A c \in 1 .. Len(kernel.delayLines) :
       kernel.delayLines[c].writes = hist.sinceConfigure

\* two frames rendered in double-tap mode on two channels
LfoOncePerFrameWitness ==
  /\ hist.frames = 2
  /\ hist.sinceConfigure = 2
  /\ Len(kernel.delayLines) = 2
  /\ kernel.odd90.value

\* C9 -- Parameter ramp policy: a call with frameCount == 1 reads delay, depth,
\* feedback, wetMix and dryMix through frameValue once each and never through
\* finalValue; a call with frameCount > 1 reads each through finalValue once,
\* never through frameValue, and every frame of the block uses those values;
\* odd90 is sampled once per call.
RampPolicy ==
  Rendered =>
    /\ kernel.odd90.reads = 1
    /\ op.frameCount = 1 =>
         /\ \A name \in ScalarNames : kernel[name].fv = 1 /\ kernel[name].fin = 0
         /\ trace[1].delay = kernel.delay.cur
         /\ trace[1].depth = kernel.depth.cur
         /\ trace[1].wetMix = kernel.wetMix.cur
         /\ trace[1].dryMix = kernel.dryMix.cur
         /\ trace[1].feedback =
              RMul(feedbackSign(kernel.negativeFeedback), kernel.feedback.cur)
    /\ op.frameCount > 1 =>
         /\ \A name \in ScalarNames : kernel[name].fv = 0 /\ kernel[name].fin = 1
         /\ Len(trace) = op.frameCount
         /\ \A i \in FramesOf(trace) :
              /\ trace[i].delay = kernel.delay.target
              /\ trace[i].depth = kernel.depth.target
              /\ trace[i].wetMix = kernel.wetMix.target
              /\ trace[i].dryMix = kernel.dryMix.target
              /\ trace[i].feedback =
                   RMul(feedbackSign(kernel.negativeFeedback), kernel.feedback.target)

\* a block rendered while a ramp is pending: frameValue would have differed
RampPolicyWitness ==
  /\ Rendered
  /\ op.frameCount = 2
  /\ \E name \in ScalarNames :
       kernel[name].left > 0 /\ kernel[name].cur # kernel[name].target

\* the largest tap: maxDelayMilliseconds * sampleRate / 1000 samples
MaxTap(cfg) == RMul(R(cfg.maxDelayMilliseconds), Norm(cfg.sampleRate, 1000))

\* C10 as stated -- after configure the kernel owns exactly channelCount delay
\* lines, each requested with ceil(maxDelayMilliseconds * samplesPerMillisecond)
\* + 1 samples, with samplesPerMillisecond = sampleRate / 1000.
ConfigureRequestsCeiling ==
  kernel.configured =>
    /\ Len(kernel.delayLines) = hist.config.channelCount
    /\ kernel.samplesPerMillisecond = Norm(hist.config.sampleRate, 1000)
    /\ kernel.size = R(RCeil(MaxTap(hist.config)) + 1)

\* C10 as amended -- after any sequence of configure calls the kernel owns
\* exactly channelCount delay lines for the most recent channelCount, each
\* requested with maxDelayMilliseconds * samplesPerMillisecond + 1 samples, not
\* rounded up: the request equals ceil(...) + 1 exactly when the product is a
\* whole number and is smaller otherwise.  A delay line sized to hold at least
\* the request has ceil(...) + 1 cells and holds the two neighbours of the
\* maximum tap.
ConfigureRequestsExactSize ==
  kernel.configured =>
    /\ Len(kernel.delayLines) = hist.config.channelCount
    /\ kernel.samplesPerMillisecond = Norm(hist.config.sampleRate, 1000)
    /\ kernel.size = RAdd(MaxTap(hist.config), One)
    /\ RLe(kernel.size, R(RCeil(MaxTap(hist.config)) + 1))
    /\ (kernel.size = R(RCeil(MaxTap(hist.config)) + 1)) <=> IsWhole(MaxTap(hist.config))
    /\ \A c \in 1 .. Len(kernel.delayLines) :
         /\ kernel.delayLines[c].capacity = RCeil(MaxTap(hist.config)) + 1
         /\ RFloor(MaxTap(hist.config)) + 1 <= kernel.delayLines[c].capacity

\* a second configure, after frames were rendered, to one channel and a
\* fractional number of samples
ConfigureWitness ==
  /\ op.name = "configure"
  /\ hist.frames > 0
  /\ Len(kernel.delayLines) = 1
  /\ ~IsWhole(MaxTap(hist.config))
  /\ kernel.delayLines[1].writes = 0

-----------------------------------------------------------------------------
(* Scenarios: a configured kernel with settled parameters, rendering only *)

\* a kernel configured for the given format whose parameters rest at s
Configured(s, channelCount, sampleRate, maxDelayMilliseconds) ==
  initialize(withSettings(Constructed, s), channelCount, sampleRate,
             maxDelayMilliseconds)

ConfigOf(channelCount, sampleRate, maxDelayMilliseconds) ==
  [channelCount |-> channelCount, sampleRate |-> sampleRate,
   maxDelayMilliseconds |-> maxDelayMilliseconds]

\* per frame of a render call: the output samples, one per channel
HeardIn(o, frameCount) ==
  [i \in 1 .. frameCount |-> [c \in 1 .. Len(o) |-> o[c][i]]]

\* per frame of a render call: the delayed and the written samples
FedIn(t) == [i \in 1 .. Len(t) |-> [delayed |-> t[i].delayed, written |-> t[i].written]]

ScenarioInit(k, sh, cfg) ==
  /\ kernel = k
  /\ shadow = sh
  /\ op = [name |-> "configure", frameCount |-> 0]
  /\ ins = <<>>
  /\ outs = <<>>
  /\ shadowOuts = <<>>
  /\ trace = <<>>
  /\ hist = [NoHistory EXCEPT !.config = cfg]

ScenarioFrameCounts == {1, 2, 3}

(* Tap computation on a grid of delay, depth and LFO phase *)

TapMaxDelays == {1, 2}
TapDepths == {Zero, <<1, 2>>, One}
TapPhases == {Norm(n, 8) : n \in 0 .. 7}
TapDelays(maxDelayMilliseconds) == {Norm(n, 2) : n \in 0 .. 2 * maxDelayMilliseconds}

InitTap ==
  \E sampleRate \in SampleRates, maxDelayMilliseconds \in TapMaxDelays,
     depth \in TapDepths, phase \in TapPhases, rate \in Rates, odd90 \in BOOLEAN :
    \E delay \in TapDelays(maxDelayMilliseconds) :
      LET s == [rate |-> rate, delay |-> delay, depth |-> depth, feedback |-> Zero,
                dryMix |-> One, wetMix |-> One, negativeFeedback |-> FALSE,
                odd90 |-> odd90]
          k == Configured(s, 2, sampleRate, maxDelayMilliseconds)
      IN ScenarioInit([k EXCEPT !.lfo.phase = phase], Constructed,
                      ConfigOf(2, sampleRate, maxDelayMilliseconds))

\* render frameCount frames of silence: the taps are what matters
RenderTap(frameCount) ==
  /\ hist.frames + frameCount <= MaxFrames
  /\ \E bus \in {ConstantBus(Len(kernel.delayLines), frameCount, Zero)} :
     \E r \in {doRendering(resetCounters(kernel), bus, frameCount)} :
        /\ kernel' = r.k
        /\ outs' = r.outs
        /\ trace' = r.trace
        /\ ins' = bus
  /\ op' = [name |-> "render", frameCount |-> frameCount]
  /\ hist' = [hist EXCEPT !.frames = @ + frameCount, !.sinceConfigure = @ + frameCount]
  /\ UNCHANGED <<shadow, shadowOuts>>

NextTap == \E frameCount \in {1, 2} : RenderTap(frameCount)

SpecTap == InitTap /\ [][NextTap]_vars

InUnit(x) == RLe(Zero, x) /\ RLe(x, One)

\* C1 -- Tap bounds: for every delay in [0, maxDelayMilliseconds], depth in
\* [0, 1] and LFO phase, the even and odd taps of every rendered frame lie in
\* [0, maxDelayMilliseconds * samplesPerMillisecond], so the tap passed to a
\* delay-line read never exceeds what the delay line was sized for.
TapBounds ==
  Rendered =>
    \A i \in FramesOf(trace) :
      ( /\ RLe(Zero, trace[i].delay)
        /\ RLe(trace[i].delay, R(hist.config.maxDelayMilliseconds))
        /\ InUnit(trace[i].depth) )
      => /\ RLe(Zero, trace[i].evenTap)
         /\ RLe(trace[i].evenTap, MaxTap(hist.config))
         /\ RLe(Zero, trace[i].oddTap)
         /\ RLe(trace[i].oddTap, MaxTap(hist.config))
         /\ \A c \in 1 .. Len(kernel.delayLines) :
              /\ clampDelay(kernel.delayLines[c], trace[i].evenTap) = trace[i].evenTap
              /\ clampDelay(kernel.delayLines[c], trace[i].oddTap) = trace[i].oddTap

\* a frame whose quadrature tap sits at the upper bound while the direct tap
\* does not, for a delay that is neither 0 nor the maximum
TapBoundsWitness ==
  /\ Rendered
  /\ \E i \in FramesOf(trace) :
       /\ trace[i].oddTap = MaxTap(hist.config)
       /\ trace[i].evenTap # trace[i].oddTap
       /\ RLt(Zero, trace[i].delay)
       /\ RLt(trace[i].delay, R(hist.config.maxDelayMilliseconds))
       /\ ~IsWhole(MaxTap(hist.config))

(* Pure delay: an impulse through a kernel with depth 0 and no feedback *)

ImpulseSampleRates == {1000, 2000}
ImpulseMaxDelays == {2, 3}

\* the delay in whole samples
DelaySamples(k) == RFloor(RMul(k.delay.target, k.samplesPerMillisecond))

InitImpulse ==
  \E channelCount \in {1, 2}, sampleRate \in ImpulseSampleRates,
     maxDelayMilliseconds \in ImpulseMaxDelays, rate \in Rates,
     negativeFeedback \in BOOLEAN, odd90 \in BOOLEAN :
    \E delay \in TapDelays(maxDelayMilliseconds) :
      LET s == [rate |-> rate, delay |-> delay, depth |-> Zero, feedback |-> Zero,
                dryMix |-> Zero, wetMix |-> One,
                negativeFeedback |-> negativeFeedback, odd90 |-> odd90]
          k == Configured(s, channelCount, sampleRate, maxDelayMilliseconds)
      IN /\ IsWhole(RMul(delay, k.samplesPerMillisecond))
         /\ DelaySamples(k) >= 1
         /\ ScenarioInit(k, Constructed,
                         ConfigOf(channelCount, sampleRate, maxDelayMilliseconds))

\* frames first + 1 .. first + frameCount of the impulse: 1 at frame 0, then 0
ImpulseBus(channelCount, first, frameCount) ==
  [c \in 1 .. channelCount |->
     [i \in 1 .. frameCount |-> IF first + i - 1 = 0 THEN One ELSE Zero]]

RenderImpulse(frameCount) ==
  /\ hist.frames + frameCount <= MaxRunFrames
  /\ \E bus \in {ImpulseBus(Len(kernel.delayLines), hist.frames, frameCount)} :
     \E r \in {doRendering(resetCounters(kernel), bus, frameCount)} :
        /\ kernel' = r.k
        /\ outs' = r.outs
        /\ trace' = r.trace
        /\ ins' = bus
        /\ hist' = [hist EXCEPT !.frames = @ + frameCount,
                                !.sinceConfigure = @ + frameCount,
                                !.silent = FALSE,
                                !.heard = @ \o HeardIn(r.outs, frameCount)]
  /\ op' = [name |-> "render", frameCount |-> frameCount]
  /\ UNCHANGED <<shadow, shadowOuts>>

NextImpulse == \E frameCount \in ScenarioFrameCounts : RenderImpulse(frameCount)

SpecImpulse == InitImpulse /\ [][NextImpulse]_vars

PartitionFrameCounts == {2, 3}

InitPartition ==
  \E channelCount \in {1, 2}, sampleRate \in {1500}, delay \in {Zero, One},
     negativeFeedback \in BOOLEAN, odd90 \in BOOLEAN :
    LET s == [rate |-> 250, delay |-> delay, depth |-> One, feedback |-> <<1, 2>>,
              dryMix |-> <<1, 2>>, wetMix |-> <<1, 2>>,
              negativeFeedback |-> negativeFeedback, odd90 |-> odd90]
        k == Configured(s, channelCount, sampleRate, 1)
    IN ScenarioInit(k, k, ConfigOf(channelCount, sampleRate, 1))

\* frames i .. frameCount of bus, each rendered by its own call with
\* frameCount == 1
RECURSIVE renderSingly(_, _, _, _)
renderSingly(st, bus, i, frameCount) ==
  IF i > frameCount THEN st
  ELSE LET one == [c \in 1 .. Len(bus) |-> <<bus[c][i]>>]
           r == doRendering(resetCounters(st.k), one, 1)
       IN renderSingly(
            [k |-> r.k,
             outs |-> [c \in 1 .. Len(bus) |-> st.outs[c] \o r.outs[c]]],
            bus, i + 1, frameCount)

RenderPartitioned(frameCount, bus) ==
  /\ hist.frames + frameCount <= MaxRunFrames
  /\ \E r \in {doRendering(resetCounters(kernel), bus, frameCount)},
        q \in {renderSingly([k |-> shadow, outs |-> [c \in 1 .. Len(bus) |-> <<>>]],
                            bus, 1, frameCount)} :
        /\ kernel' = r.k
        /\ outs' = r.outs
        /\ trace' = r.trace
        /\ shadow' = q.k
        /\ shadowOuts' = q.outs
  /\ ins' = bus
  /\ op' = [name |-> "render", frameCount |-> frameCount]
  /\ hist' = [hist EXCEPT !.frames = @ + frameCount,
                          !.sinceConfigure = @ + frameCount,
                          !.silent = @ /\ IsSilent(bus)]

NextPartition ==
  \E frameCount \in PartitionFrameCounts :
    \E bus \in Buses(Len(kernel.delayLines), frameCount) :
      RenderPartitioned(frameCount, bus)

SpecPartition == InitPartition /\ [][NextPartition]_vars

SameLines(a, b) ==
  /\ Len(a.delayLines) = Len(b.delayLines)
  /\ \A c \in 1 .. Len(a.delayLines) :
       /\ a.delayLines[c].buf = b.delayLines[c].buf
       /\ a.delayLines[c].writePos = b.delayLines[c].writePos

\* C4 -- Ramp versus block equivalence: with settled parameters, rendering N
\* frames in one call with frameCount = N > 1 and rendering them in N calls
\* with frameCount = 1 give the same output samples, the same LFO phase and
\* the same delay-line contents, call after call.
PartitionEquivalence ==
  /\ outs = shadowOuts
  /\ kernel.lfo.phase = shadow.lfo.phase
  /\ kernel.lfo.increments = shadow.lfo.increments
  /\ SameLines(kernel, shadow)

\* two blocks rendered in double-tap mode with modulation: the two channels'
\* delay lines differ and an output sample is an interpolated fraction
PartitionWitness ==
  /\ hist.frames = 4
  /\ kernel.odd90.value
  /\ kernel.depth.target = One
  /\ Len(kernel.delayLines) = 2
  /\ \E i \in 1 .. 2 : outs[1][i] # outs[2][i] /\ ~IsWhole(outs[2][i])

(* Feedback sign: kernel with negativeFeedback off, shadow with it on *)

FeedbackMaxDelays == {1, 2}

InitFeedbackSign ==
  \E channelCount \in {1, 2}, sampleRate \in SampleRates,
     maxDelayMilliseconds \in FeedbackMaxDelays, depth \in {Zero, One},
     rate \in Rates, odd90 \in BOOLEAN :
    \E delay \in DelayValues([maxDelayMilliseconds |-> maxDelayMilliseconds]) :
      LET s == [rate |-> rate, delay |-> delay, depth |-> depth,
                feedback |-> <<1, 2>>, dryMix |-> Zero, wetMix |-> One,
                negativeFeedback |-> FALSE, odd90 |-> odd90]
          k == Configured(s, channelCount, sampleRate, maxDelayMilliseconds)
      IN ScenarioInit(k, [k EXCEPT !.negativeFeedback = TRUE],
                      ConfigOf(channelCount, sampleRate, maxDelayMilliseconds))

\* both kernels render frameCount frames of the step input 1, 1, 1, ...
RenderStep(frameCount) ==
  /\ hist.frames + frameCount <= MaxRunFrames
  /\ \E bus \in {ConstantBus(Len(kernel.delayLines), frameCount, One)} :
     \E r \in {doRendering(resetCounters(kernel), bus, frameCount)},
        q \in {doRendering(resetCounters(shadow), bus, frameCount)} :
        /\ kernel' = r.k
        /\ outs' = r.outs
        /\ trace' = r.trace
        /\ shadow' = q.k
        /\ shadowOuts' = q.outs
        /\ ins' = bus
        /\ hist' = [hist EXCEPT !.frames = @ + frameCount,
                                !.sinceConfigure = @ + frameCount,
                                !.silent = FALSE,
                                !.heard = @ \o HeardIn(r.outs, frameCount),
                                !.shadowHeard = @ \o HeardIn(q.outs, frameCount),
                                !.fed = @ \o FedIn(r.trace),
                                !.shadowFed = @ \o FedIn(q.trace)]
  /\ op' = [name |-> "render", frameCount |-> frameCount]

NextFeedbackSign == \E frameCount \in ScenarioFrameCounts : RenderStep(frameCount)

SpecFeedbackSign == InitFeedbackSign /\ [][NextFeedbackSign]_vars

HeardFrames == 1 .. Len(hist.heard)
HeardChannels == 1 .. Len(kernel.delayLines)

Differ(n, c) == hist.heard[n][c] # hist.shadowHeard[n][c]

\* (n, c) is a first sample at which the two outputs differ
FirstDiffer(n, c) ==
  /\ Differ(n, c)
  /\ \A m \in 1 .. n - 1 : \A b \in HeardChannels : ~Differ(m, b)

\* C5 as stated -- after any N >= 1 frames of the step input the two outputs
\* differ, and the first sample at which they differ has opposite sign in the
\* two outputs.
FeedbackSignFlipsOutput ==
  hist.frames >= 1 =>
    /\ \E n \in HeardFrames : \E c \in HeardChannels : Differ(n, c)
    /\ \A n \in HeardFrames : \A c \in HeardChannels :
         FirstDiffer(n, c) =>
           hist.heard[n][c][1] * hist.shadowHeard[n][c][1] < 0

\* no delayed sample of channel c was non-zero before frame n, in either kernel
QuietBefore(n, c) ==
  \A m \in 1 .. n - 1 :
    hist.fed[m].delayed[c] = Zero /\ hist.shadowFed[m].delayed[c] = Zero

\* C5 as amended -- up to and including the first frame whose delayed sample is
\* non-zero the two kernels read the same delayed sample and write the same
\* output; in that frame they write input + feedback * delayed and input -
\* feedback * delayed to their delay lines, contributions that are each
\* other's negation.  The outputs differ only later, once such a sample is
\* read back.
FeedbackSignNegatesContribution ==
  \A n \in HeardFrames : \A c \in HeardChannels :
    QuietBefore(n, c) =>
      /\ hist.fed[n].delayed[c] = hist.shadowFed[n].delayed[c]
      /\ hist.heard[n][c] = hist.shadowHeard[n][c]
      /\ hist.fed[n].written[c] =
           RAdd(One, RMul(<<1, 2>>, hist.fed[n].delayed[c]))
      /\ hist.shadowFed[n].written[c] =
           RSub(One, RMul(<<1, 2>>, hist.shadowFed[n].delayed[c]))
      /\ RSub(hist.fed[n].written[c], One) =
           RNeg(RSub(hist.shadowFed[n].written[c], One))

\* the first non-zero delayed sample has been fed back with both signs, and the
\* outputs, equal until then, later differ while both are positive
FeedbackSignWitness ==
  \E n \in HeardFrames : \E c \in HeardChannels :
    /\ QuietBefore(n, c)
    /\ hist.fed[n].delayed[c] # Zero
    /\ hist.fed[n].written[c] # hist.shadowFed[n].written[c]
    /\ \E m \in HeardFrames :
         /\ FirstDiffer(m, c)
         /\ m > n
         /\ RLt(Zero, hist.heard[m][c])
         /\ RLt(Zero, hist.shadowHeard[m][c])

=============================================================================
